---- MODULE Spec2Model ----
(***************************************************************************)
(* Route-composition layer of the stund backend (backend/router/router.go), *)
(* the startup path of backend/main.go and the bearer-token interceptor of  *)
(* backend/utils/helpers.go.                                                *)
(*                                                                          *)
(* Paths are TLA+ strings and are concatenated with \o exactly as the Go    *)
(* code concatenates them with +.  The dispatcher (chi) is an external      *)
(* library: it is modelled as the log of the registration calls made on it, *)
(* each call carrying the mux it was made on (identified by the prefix the  *)
(* mux is mounted under).                                                   *)
(***************************************************************************)
EXTENDS Integers, Sequences, FiniteSets, TLC

VARIABLES
    nodes,      \* heap of RouteNode values; a *RouteNode is an index into it
    routeTree,  \* routerWrapped.routeTree: NilTree or the slice holding the root
    chi,        \* routerWrapped.internal: the registrations the dispatcher holds
    pass,       \* the registration calls of the most recent registerWithChi(root, ""),
                \* in call order, with the heap that pass walked and the With
                \* calls made before it
    written,    \* what the most recent WriteRoutes wrote, and the heap it walked
    withCalls,  \* the With calls made so far, in call order
    setup,      \* 0, or the node handed to the providers while SetupRoutes is in its callback
    last,       \* the last call made and how it ended: "ok" or "panic"
    pc,         \* position of main(): index of its next call in mainOrder
    request,    \* the request given to the auth interceptor
    response    \* what the interceptor did with it

vars == <<nodes, routeTree, chi, pass, written, withCalls, setup, last, pc,
          request, response>>

routerVars == <<nodes, routeTree, chi, pass, written, withCalls, setup, last>>

authVars == <<request, response>>

----------------------------------------------------------------------------
(* Bounds *)

MaxNodes == 4
MaxWith == 2
MaxWithNodes == 3

(* Inputs the callers draw from *)

MiddlewareArgs == {<<"mwA">>, <<"mwB">>, <<"mwA", "mwB">>}

----------------------------------------------------------------------------
(* router.go: types *)

GET == "GET"
POST == "POST"
PUT == "PUT"
DELETE == "DELETE"
Undefined == "Undefined"

Nil == "nil"

\* r.routeTree when it is the nil pointer
NilTree == <<>>

RouteNode(method, pattern, handler) ==
    [children |-> <<>>,
     info |-> [method |-> method, route |-> pattern],
     middlewares |-> <<>>,
     handler |-> handler]

\* n.newRouteNode(method, pattern, handler) on heap t: the new node is stored
\* and appended to n's children; its pointer is Len(t) + 1.
newRouteNode(t, n, method, pattern, handler) ==
    LET new == Len(t) + 1
        t1 == Append(t, RouteNode(method, pattern, handler))
    IN  [t1 EXCEPT ![n].children = Append(@, new)]

----------------------------------------------------------------------------
(* router.go: the route printer *)

\* fmt.Fprintf(writer, "  %s %s\n", method, currentPath)
Fprintf(method, currentPath) == "  " \o method \o " " \o currentPath \o "\n"

RECURSIVE writeRoute(_, _, _, _)
RECURSIVE writeChildren(_, _, _, _, _)

\* writeRoute as it would be if it listed a node only once the dispatcher
\* holds a registration made for it
writeRoute_registeredOnly(t, node, basePath, sinkLeft) ==
    LET currentPath == basePath \o t[node].info.route
        prints == /\ t[node].handler # Nil /\ t[node].info.method # Undefined
                  /\ \E c \in chi : c.node = node
    IN  IF prints /\ sinkLeft = 0
        THEN [lines |-> <<>>, left |-> 0, err |-> TRUE]
        ELSE LET own == IF prints
                        THEN <<Fprintf(t[node].info.method, currentPath)>>
                        ELSE <<>>
                 left == IF prints THEN sinkLeft - 1 ELSE sinkLeft
                 rest == writeChildren(t, t[node].children, 1, currentPath, left)
             IN  [lines |-> own \o rest.lines, left |-> rest.left, err |-> rest.err]

\* writeRoute on heap t.  sinkLeft is the number of writes the writer still
\* accepts; a refused write makes the call return without visiting the
\* node's children.  The result is the lines written, what the writer still
\* accepts afterwards, and whether a write was refused.
writeRoute(t, node, basePath, sinkLeft) ==
    LET currentPath == basePath \o t[node].info.route
        prints == t[node].handler # Nil /\ t[node].info.method # Undefined
    IN  IF prints /\ sinkLeft = 0
        THEN [lines |-> <<>>, left |-> 0, err |-> TRUE]
        ELSE LET own == IF prints
                        THEN <<Fprintf(t[node].info.method, currentPath)>>
                        ELSE <<>>
                 left == IF prints THEN sinkLeft - 1 ELSE sinkLeft
                 rest == writeChildren(t, t[node].children, 1, currentPath, left)
             IN  [lines |-> own \o rest.lines, left |-> rest.left, err |-> rest.err]

\* for _, child := range node.children { r.writeRoute(writer, child, currentPath) }
writeChildren(t, children, i, currentPath, sinkLeft) ==
    IF i > Len(children)
    THEN [lines |-> <<>>, left |-> sinkLeft, err |-> FALSE]
    ELSE LET first == writeRoute(t, children[i], currentPath, sinkLeft)
             rest == writeChildren(t, children, i + 1, currentPath, first.left)
         IN  [lines |-> first.lines \o rest.lines,
              left |-> rest.left,
              err |-> first.err \/ rest.err]

----------------------------------------------------------------------------
(* router.go: the materializer *)

\* One registration call on the dispatcher.  mux is the prefix under which the
\* receiving mux is mounted ("" for the top-level mux), pattern the path given
\* to Get/Post/Put/Delete, middlewares the arguments of router.With (empty
\* when the route is registered on the mux itself).
registerMethodWithMiddleware(t, node, methodFunc, path, mux) ==
    [mux |-> mux,
     method |-> methodFunc,
     pattern |-> path,
     middlewares |-> IF Len(t[node].middlewares) > 0
                     THEN t[node].middlewares
                     ELSE <<>>,
     handler |-> t[node].handler,
     node |-> node]

RECURSIVE registerWithChi(_, _, _, _)
RECURSIVE registerChildren(_, _, _, _, _)

\* registerWithChi as it would be if the children of a sub-scope were given
\* currentPath as their base path
registerWithChi_prefixTwice(t, node, basePath, mux) ==
    LET currentPath == basePath \o t[node].info.route
        n == t[node]
    IN  IF /\ n.info.method = Undefined
           /\ n.handler = Nil
           /\ Len(n.children) > 0
           /\ Len(currentPath) > 0
        THEN registerChildren(t, n.children, 1, currentPath, mux \o currentPath)
        ELSE IF n.handler # Nil
        THEN IF n.info.method \in {GET, POST, PUT, DELETE}
             THEN <<registerMethodWithMiddleware(t, node, n.info.method, currentPath, mux)>>
             ELSE <<>>
        ELSE registerChildren(t, n.children, 1, currentPath, mux)

\* registerWithChi as it would be without the return that follows the
\* registration of a handler
registerWithChi_noReturn(t, node, basePath, mux) ==
    LET currentPath == basePath \o t[node].info.route
        n == t[node]
    IN  IF /\ n.info.method = Undefined
           /\ n.handler = Nil
           /\ Len(n.children) > 0
           /\ Len(currentPath) > 0
        THEN registerChildren(t, n.children, 1, "", mux \o currentPath)
        ELSE (IF n.handler # Nil /\ n.info.method \in {GET, POST, PUT, DELETE}
              THEN <<registerMethodWithMiddleware(t, node, n.info.method, currentPath, mux)>>
              ELSE <<>>)
             \o registerChildren(t, n.children, 1, currentPath, mux)

\* r.registerWithChi(node, basePath) where r.internal is the mux mounted
\* under prefix mux; the result is the sequence of registration calls made.
registerWithChi(t, node, basePath, mux) ==
    LET currentPath == basePath \o t[node].info.route
        n == t[node]
    IN  IF /\ n.info.method = Undefined
           /\ n.handler = Nil
           /\ Len(n.children) > 0
           /\ Len(currentPath) > 0
        THEN \* r.internal.Route(currentPath, ...): children go to the subrouter
             registerChildren(t, n.children, 1, "", mux \o currentPath)
        ELSE IF n.handler # Nil
        THEN IF n.info.method \in {GET, POST, PUT, DELETE}
             THEN <<registerMethodWithMiddleware(t, node, n.info.method, currentPath, mux)>>
             ELSE <<>>
        ELSE registerChildren(t, n.children, 1, currentPath, mux)

\* for _, child := range node.children { r.registerWithChi(child, basePath) }
registerChildren(t, children, i, basePath, mux) ==
    IF i > Len(children)
    THEN <<>>
    ELSE registerWithChi(t, children[i], basePath, mux)
           \o registerChildren(t, children, i + 1, basePath, mux)

\* The path a registration answers on: the mount prefix of its mux followed
\* by the pattern registered on that mux.
EffectivePath(reg) == reg.mux \o reg.pattern

----------------------------------------------------------------------------
(* router.go: New *)

NoRequest == [key |-> <<>>, header |-> <<>>]
NoResponse == [status |-> 0, success |-> FALSE, error |-> "", next |-> 0]
NoPass == [done |-> FALSE, calls |-> <<>>, tree |-> <<>>, withCalls |-> <<>>]
NoWrite == [done |-> FALSE, lines |-> <<>>, err |-> FALSE, tree |-> <<>>]

\* The state New returns: a heap holding the synthetic root, the route tree
\* slice pointing at it, and a dispatcher without routes.
New ==
    /\ nodes = <<RouteNode(Undefined, "", Nil)>>
    /\ routeTree = <<1>>
    /\ chi = {}
    /\ pass = NoPass
    /\ written = NoWrite
    /\ withCalls = <<>>
    /\ setup = 0
    /\ last = [op |-> "New", result |-> "ok"]

Init ==
    /\ New
    /\ pc = 1
    /\ request = NoRequest
    /\ response = NoResponse

Ok(op) == [op |-> op, result |-> "ok"]

----------------------------------------------------------------------------
(* router.go: the builder API.  Any caller holding a *RouteNode may call it. *)

\* Room left on the heap; while SetupRoutes is in its callback one slot is
\* kept for the health node it appends on return.
HasRoom == Len(nodes) < (IF setup = 0 THEN MaxNodes ELSE MaxNodes - 1)

\* n.Route(pattern, f): f runs on the new grouping node; the builder calls f
\* makes are further builder steps.
Route(n, pattern) ==
    /\ HasRoom
    /\ nodes' = newRouteNode(nodes, n, Undefined, pattern, Nil)
    /\ last' = Ok("Route")
    /\ UNCHANGED <<routeTree, chi, pass, written, withCalls, setup>>

Get(n, pattern, f) ==
    /\ HasRoom
    /\ nodes' = newRouteNode(nodes, n, GET, pattern, f)
    /\ last' = Ok("Get")
    /\ UNCHANGED <<routeTree, chi, pass, written, withCalls, setup>>

Post(n, pattern, f) ==
    /\ HasRoom
    /\ nodes' = newRouteNode(nodes, n, POST, pattern, f)
    /\ last' = Ok("Post")
    /\ UNCHANGED <<routeTree, chi, pass, written, withCalls, setup>>

Put(n, pattern, f) ==
    /\ HasRoom
    /\ nodes' = newRouteNode(nodes, n, PUT, pattern, f)
    /\ last' = Ok("Put")
    /\ UNCHANGED <<routeTree, chi, pass, written, withCalls, setup>>

Delete(n, pattern, f) ==
    /\ HasRoom
    /\ nodes' = newRouteNode(nodes, n, DELETE, pattern, f)
    /\ last' = Ok("Delete")
    /\ UNCHANGED <<routeTree, chi, pass, written, withCalls, setup>>

appendMiddlewares_prepend(old, middlewares) == middlewares \o old

\* n.middlewares = append(n.middlewares, middlewares...)
appendMiddlewares(old, middlewares) == old \o middlewares

With(n, middlewares) ==
    /\ Len(withCalls) < MaxWith
    /\ nodes' = [nodes EXCEPT ![n].middlewares = appendMiddlewares(@, middlewares)]
    /\ withCalls' = Append(withCalls, [node |-> n, middlewares |-> middlewares])
    /\ last' = Ok("With")
    /\ UNCHANGED <<routeTree, chi, pass, written, setup>>

----------------------------------------------------------------------------
(* router.go: SetupRoutes, WriteRoutes, ClearRouteTree *)

version == "v1"
apiRoot == "/api" \o "/" \o version

\* (*r.routeTree)[0] on a nil r.routeTree
Panic(op) ==
    /\ last' = [op |-> op, result |-> "panic"]
    /\ UNCHANGED <<nodes, routeTree, chi, pass, written, withCalls, setup>>

\* SetupRoutes up to the point where the callback given to root.Route runs
\* and hands the new node to the providers.
SetupRoutesEnter ==
    /\ setup = 0
    /\ IF routeTree = NilTree
       THEN Panic("SetupRoutes")
       ELSE /\ Len(nodes) + 2 <= MaxNodes
            /\ nodes' = newRouteNode(nodes, routeTree[1], Undefined, apiRoot, Nil)
            /\ setup' = Len(nodes) + 1
            /\ last' = Ok("Route")
            /\ UNCHANGED <<routeTree, chi, pass, written, withCalls>>


\* The rest of SetupRoutes once the providers have returned: the health
\* route, then the materialization pass from the root.
SetupRoutesReturn ==
    /\ setup # 0
    /\ LET root == routeTree[1]
           t == newRouteNode(nodes, root, GET, "/health", "health")
           calls == registerWithChi(t, root, "", "")
       IN  /\ nodes' = t
           /\ chi' = chi \cup {calls[i] : i \in DOMAIN calls}
           /\ pass' = [done |-> TRUE, calls |-> calls, tree |-> t, withCalls |-> withCalls]
    /\ setup' = 0
    /\ last' = Ok("SetupRoutes")
    /\ UNCHANGED <<routeTree, written, withCalls>>

\* r.registerWithChi((*r.routeTree)[0], "") called on its own
Materialize ==
    /\ setup = 0
    /\ routeTree # NilTree
    /\ LET calls == registerWithChi(nodes, routeTree[1], "", "")
       IN  /\ chi' = chi \cup {calls[i] : i \in DOMAIN calls}
           /\ pass' = [done |-> TRUE, calls |-> calls, tree |-> nodes, withCalls |-> withCalls]
    /\ last' = Ok("registerWithChi")
    /\ UNCHANGED <<nodes, routeTree, written, withCalls, setup>>

\* WriteRoutes on a writer that accepts sinkLeft writes
WriteRoutes(sinkLeft) ==
    /\ setup = 0
    /\ IF routeTree = NilTree
       THEN Panic("WriteRoutes")
       ELSE LET w == writeRoute(nodes, routeTree[1], "", sinkLeft)
            IN  /\ written' = [done |-> TRUE, lines |-> w.lines, err |-> w.err,
                               tree |-> nodes]
                /\ last' = Ok("WriteRoutes")
                /\ UNCHANGED <<nodes, routeTree, chi, pass, withCalls, setup>>

ClearRouteTree ==
    /\ setup = 0
    /\ routeTree' = NilTree
    /\ last' = Ok("ClearRouteTree")
    /\ UNCHANGED <<nodes, chi, pass, written, withCalls, setup>>

----------------------------------------------------------------------------
(* Spec: trees built by any sequence of builder calls, printed and          *)
(* materialized at any time                                                 *)

Pointers == 1..Len(nodes)
SinkInputs == {0, MaxNodes}

\* A step of the router leaves main() and the interceptor where they are
Outside == UNCHANGED <<pc, request, response>>

CallRoute == Outside /\ \E n \in Pointers, p \in {"", "/a"} : Route(n, p)
CallGet == Outside /\ \E n \in Pointers : Get(n, "/a", "h")
CallPost == Outside /\ \E n \in Pointers : Post(n, "/b", "h")
CallPut == Outside /\ \E n \in Pointers : Put(n, "/a", Nil)
CallDelete == Outside /\ \E n \in Pointers : Delete(n, "/c", "h")
CallMaterialize == Outside /\ Materialize
CallWriteRoutes == Outside /\ \E k \in SinkInputs : WriteRoutes(k)

Next ==
    \/ CallRoute
    \/ CallGet
    \/ CallPost
    \/ CallPut
    \/ CallDelete
    \/ CallMaterialize
    \/ CallWriteRoutes

Spec == Init /\ [][Next]_vars

----------------------------------------------------------------------------
(* SpecWith: middleware attached with With, then materialized *)

\* The heap is kept to MaxWithNodes nodes here
ScopeRoute == Outside /\ Len(nodes) < MaxWithNodes /\ \E n \in Pointers : Route(n, "/a")
LeafGet == Outside /\ Len(nodes) < MaxWithNodes /\ \E n \in Pointers : Get(n, "/b", "h")
CallWith == Outside /\ \E n \in Pointers, ms \in MiddlewareArgs : With(n, ms)

NextWith ==
    \/ ScopeRoute
    \/ LeafGet
    \/ CallWith
    \/ CallMaterialize

SpecWith == Init /\ [][NextWith]_vars

----------------------------------------------------------------------------
(* SpecLife: the router's own lifecycle, with callers that keep the nodes   *)
(* they were given                                                          *)

KeptRoute == Outside /\ \E n \in Pointers : Route(n, "/a")
KeptGet == Outside /\ \E n \in Pointers, p \in {"/a", "/b"} : Get(n, p, "h")
KeptWith == Outside /\ \E n \in Pointers : With(n, <<"mwA">>)
CallSetupRoutesEnter == Outside /\ SetupRoutesEnter
CallSetupRoutesReturn == Outside /\ SetupRoutesReturn
CallWriteRoutesAll == Outside /\ WriteRoutes(MaxNodes)
CallClearRouteTree == Outside /\ ClearRouteTree

NextLife ==
    \/ KeptRoute
    \/ KeptGet
    \/ KeptWith
    \/ CallSetupRoutesEnter
    \/ CallSetupRoutesReturn
    \/ CallWriteRoutesAll
    \/ CallClearRouteTree

SpecLife == Init /\ [][NextLife]_vars

----------------------------------------------------------------------------
(* main.go: the startup path.  The providers handed to SetupRoutes are any  *)
(* feature modules: each builds under the node it is given.                 *)

mainOrder_writeFirst == <<"WriteRoutes", "SetupRoutes", "ClearRouteTree", "ListenAndServe">>

\* The calls main() makes on the router, in program order
mainOrder == <<"SetupRoutes", "WriteRoutes", "ClearRouteTree", "ListenAndServe">>

AtCall(op) == pc <= Len(mainOrder) /\ mainOrder[pc] = op /\ last.result = "ok"
Serving == pc > Len(mainOrder)

RECURSIVE Scope(_, _)
\* The nodes a provider can reach from the node it was given
Scope(t, n) == {n} \cup UNION {Scope(t, t[n].children[i]) : i \in DOMAIN t[n].children}

MainSetupRoutes ==
    /\ AtCall("SetupRoutes")
    /\ SetupRoutesEnter
    /\ UNCHANGED <<pc, request, response>>

ProviderRoute ==
    /\ AtCall("SetupRoutes") /\ setup # 0
    /\ \E n \in Scope(nodes, setup), p \in {"", "/a"} : Route(n, p)
    /\ UNCHANGED <<pc, request, response>>

ProviderGet ==
    /\ AtCall("SetupRoutes") /\ setup # 0
    /\ \E n \in Scope(nodes, setup), p \in {"/a", "/b"} : Get(n, p, "h")
    /\ UNCHANGED <<pc, request, response>>

ProviderPost ==
    /\ AtCall("SetupRoutes") /\ setup # 0
    /\ \E n \in Scope(nodes, setup) : Post(n, "/a", "h")
    /\ UNCHANGED <<pc, request, response>>

ProviderWith ==
    /\ AtCall("SetupRoutes") /\ setup # 0
    /\ \E n \in Scope(nodes, setup) : With(n, <<"mwA">>)
    /\ UNCHANGED <<pc, request, response>>

MainSetupRoutesReturns ==
    /\ AtCall("SetupRoutes")
    /\ SetupRoutesReturn
    /\ pc' = pc + 1
    /\ UNCHANGED <<request, response>>

\* r.WriteRoutes(writer): the writer is a bufio.Writer over a bytes.Buffer
MainWriteRoutes ==
    /\ AtCall("WriteRoutes")
    /\ WriteRoutes(MaxNodes)
    /\ pc' = IF last'.result = "ok" THEN pc + 1 ELSE pc
    /\ UNCHANGED <<request, response>>

MainClearRouteTree ==
    /\ AtCall("ClearRouteTree")
    /\ ClearRouteTree
    /\ pc' = pc + 1
    /\ UNCHANGED <<request, response>>

\* go func() { ... server.ListenAndServe() ... }()
MainListenAndServe ==
    /\ AtCall("ListenAndServe")
    /\ pc' = pc + 1
    /\ last' = Ok("ListenAndServe")
    /\ UNCHANGED <<nodes, routeTree, chi, pass, written, withCalls, setup, request, response>>

NextMain ==
    \/ MainSetupRoutes
    \/ ProviderRoute
    \/ ProviderGet
    \/ ProviderPost
    \/ ProviderWith
    \/ MainSetupRoutesReturns
    \/ MainWriteRoutes
    \/ MainClearRouteTree
    \/ MainListenAndServe

SpecMain == Init /\ [][NextMain]_vars

----------------------------------------------------------------------------
(* helpers.go: MiddlewareAPIAuth.  Header values and keys are sequences of  *)
(* characters.                                                              *)

MaxKeyLen == 2

Alphabet == {"k", "x"}
Strings(n) == UNION {[1..m -> Alphabet] : m \in 0..n}

apiKeyPrefix == <<"B", "e", "a", "r", "e", "r", " ">>

\* strings.HasPrefix
HasPrefix(str, prefix) ==
    Len(str) >= Len(prefix) /\ SubSeq(str, 1, Len(prefix)) = prefix

\* strings.TrimPrefix
TrimPrefix(str, prefix) ==
    IF HasPrefix(str, prefix) THEN SubSeq(str, Len(prefix) + 1, Len(str)) ELSE str

RECURSIVE orDiff(_, _, _)
\* v |= x[i] ^ y[i] over the first n bytes; 0 when none differs
orDiff(x, y, n) ==
    IF n = 0 THEN 0
    ELSE IF x[n] # y[n] THEN 1 ELSE orDiff(x, y, n - 1)

ConstantTimeCompare_noLength(x, y) ==
    LET n == IF Len(x) < Len(y) THEN Len(x) ELSE Len(y)
    IN  IF orDiff(x, y, n) = 0 THEN 1 ELSE 0

\* subtle.ConstantTimeCompare: 0 on different lengths, else 1 iff no byte differs
ConstantTimeCompare(x, y) ==
    IF Len(x) # Len(y) THEN 0
    ELSE IF orDiff(x, y, Len(x)) = 0 THEN 1 ELSE 0

StatusUnauthorized == 401

\* RespondWithJSON(w, status, success, nil, errorMsg); next is not called
RespondWithJSON(status, success, errorMsg) ==
    [status |-> status, success |-> success, error |-> errorMsg, next |-> 0]

\* The handler MiddlewareAPIAuth(configAPIKey)(next) on a request carrying authHeader
MiddlewareAPIAuth(configAPIKey, authHeader) ==
    IF authHeader = <<>>
    THEN RespondWithJSON(StatusUnauthorized, FALSE, "Missing API Key")
    ELSE IF ~HasPrefix(authHeader, apiKeyPrefix)
    THEN RespondWithJSON(StatusUnauthorized, FALSE, "Invalid Authorization format.")
    ELSE IF ConstantTimeCompare(TrimPrefix(authHeader, apiKeyPrefix), configAPIKey) # 1
    THEN RespondWithJSON(StatusUnauthorized, FALSE, "Invalid API Key")
    ELSE [status |-> 0, success |-> FALSE, error |-> "", next |-> 1]

\* The keys config.Load accepts (API_KEY must be set and not empty)
Keys == Strings(MaxKeyLen) \ {<<>>}

\* Header values: arbitrary text, the scheme followed by a candidate key, and
\* near misses of the scheme
Headers ==
    Strings(MaxKeyLen)
        \cup {apiKeyPrefix \o r : r \in Strings(MaxKeyLen + 1)}
        \cup {SubSeq(apiKeyPrefix, 1, 6) \o r : r \in Strings(MaxKeyLen)}
        \cup {<<"b", "e", "a", "r", "e", "r", " ">> \o r : r \in Strings(MaxKeyLen)}
        \cup {<<" ">> \o apiKeyPrefix \o r : r \in Strings(MaxKeyLen)}
        \cup {<<"T", "o", "k", "e", "n", " ">> \o r : r \in Strings(MaxKeyLen)}

InitAuth ==
    /\ New
    /\ pc = 1
    /\ request \in [key : Keys, header : Headers]
    /\ response = NoResponse

Handled == response # NoResponse

ServeHTTP ==
    /\ ~Handled
    /\ response' = MiddlewareAPIAuth(request.key, request.header)
    /\ UNCHANGED <<nodes, routeTree, chi, pass, written, withCalls, setup, last, pc, request>>

NextAuth == ServeHTTP

SpecAuth == InitAuth /\ [][NextAuth]_vars

----------------------------------------------------------------------------
(* What the claims speak of, stated on the tree alone *)

Methods == {GET, POST, PUT, DELETE}

HasParent(t, c) == \E p \in 1..Len(t) : \E i \in DOMAIN t[p].children : t[p].children[i] = c
ParentOf(t, c) == CHOOSE p \in 1..Len(t) : \E i \in DOMAIN t[p].children : t[p].children[i] = c

\* The nodes from the root down to n, n included
RECURSIVE RootPath(_, _)
RootPath(t, n) == IF HasParent(t, n) THEN Append(RootPath(t, ParentOf(t, n)), n) ELSE <<n>>

ProperAncestors(t, n) == LET rp == RootPath(t, n) IN {rp[i] : i \in 1..(Len(rp) - 1)}

RECURSIVE Concat(_, _, _)
Concat(t, ns, i) == IF i > Len(ns) THEN "" ELSE t[ns[i]].info.route \o Concat(t, ns, i + 1)

\* The path segments from the root to n, joined in order
FullPath(t, n) == Concat(t, RootPath(t, n), 1)

IsGrouping(t, n) == t[n].info.method = Undefined /\ t[n].handler = Nil
BearsHandler(t, n) == t[n].handler # Nil

RECURSIVE PreOrder(_, _)
RECURSIVE PreOrderAll(_, _, _)
PreOrder(t, n) == <<n>> \o PreOrderAll(t, t[n].children, 1)
PreOrderAll(t, cs, i) ==
    IF i > Len(cs) THEN <<>> ELSE PreOrder(t, cs[i]) \o PreOrderAll(t, cs, i + 1)

Range(f) == {f[i] : i \in DOMAIN f}

PrintedSet == Range(written.lines)
RegisteredSet == {Fprintf(c.method, EffectivePath(c)) : c \in Range(pass.calls)}

----------------------------------------------------------------------------
(* C1: whenever the printer (on a writer that accepts every write) and the  *)
(* materializer have both walked the same tree, the set of (method, full    *)
(* path) pairs printed equals the set of (method, effective path) pairs     *)
(* registered.                                                              *)
C1_PrintedEqualsRegistered ==
    (written.done /\ ~written.err /\ pass.done /\ written.tree = pass.tree)
        => PrintedSet = RegisteredSet

----------------------------------------------------------------------------
(* C3: every handler leaf whose ancestors are all grouping nodes is         *)
(* registered, and the path it answers on is the concatenation of the       *)
(* segments from the root to it, whatever mix of sub-scopes and             *)
(* pass-through groups lies on the way.                                     *)
AllAncestorsGroup(t, n) == \A a \in ProperAncestors(t, n) : IsGrouping(t, a)

C3_PathIsConcatenation ==
    pass.done =>
        /\ \A c \in Range(pass.calls) :
               AllAncestorsGroup(pass.tree, c.node)
                   => EffectivePath(c) = FullPath(pass.tree, c.node)
        /\ \A n \in 1..Len(pass.tree) :
               (/\ BearsHandler(pass.tree, n)
                /\ pass.tree[n].info.method \in Methods
                /\ AllAncestorsGroup(pass.tree, n))
                   => \E c \in Range(pass.calls) : c.node = n

\* A leaf three levels down, reached through a pass-through group and a sub-scope
C3_Witness ==
    /\ pass.done
    /\ \E c \in Range(pass.calls) :
          /\ AllAncestorsGroup(pass.tree, c.node)
          /\ Len(RootPath(pass.tree, c.node)) = 4
          /\ c.mux # ""
          /\ \E a \in ProperAncestors(pass.tree, c.node) : a # 1 /\ pass.tree[a].info.route = ""

----------------------------------------------------------------------------
(* C8: in every reachable tree a node has a method other than Undefined     *)
(* exactly when it has a handler.                                           *)
C8_MethodIffHandler ==
    \A n \in 1..Len(nodes) : (nodes[n].info.method # Undefined) <=> (nodes[n].handler # Nil)

----------------------------------------------------------------------------
----------------------------------------------------------------------------
(* C10: one pass from the root registers, in depth-first pre-order with     *)
(* siblings in insertion order, exactly the nodes that have a handler, a    *)
(* method among GET, POST, PUT, DELETE and no handler-bearing proper        *)
(* ancestor, each once, and nothing else.                                   *)
Registrable(t, n) ==
    /\ BearsHandler(t, n)
    /\ t[n].info.method \in Methods
    /\ \A a \in ProperAncestors(t, n) : ~BearsHandler(t, a)

RECURSIVE Filter(_, _, _)
Filter(t, ns, i) ==
    IF i > Len(ns) THEN <<>>
    ELSE (IF Registrable(t, ns[i]) THEN <<ns[i]>> ELSE <<>>) \o Filter(t, ns, i + 1)

C10_OneRegistrationPerReachableHandler ==
    pass.done =>
        [i \in DOMAIN pass.calls |-> pass.calls[i].node]
            = Filter(pass.tree, PreOrder(pass.tree, 1), 1)

\* A pass over a tree with a node under a handler-bearing node, and a
\* registered node under a node that has a method but no handler
C10_Witness ==
    /\ pass.done
    /\ \E n \in 1..Len(pass.tree) :
          /\ BearsHandler(pass.tree, n)
          /\ \E a \in ProperAncestors(pass.tree, n) : BearsHandler(pass.tree, a)
    /\ \E c \in Range(pass.calls) :
          \E a \in ProperAncestors(pass.tree, c.node) :
              pass.tree[a].info.method # Undefined /\ pass.tree[a].handler = Nil

----------------------------------------------------------------------------
(* C2: once SetupRoutes has returned, the dispatcher holds the health       *)
(* handler for GET at /api/v1/health, whatever the providers built.         *)
C2_HealthUnderApiRoot ==
    last = Ok("SetupRoutes")
        => \E c \in chi :
               c.method = GET /\ EffectivePath(c) = "/api/v1/health" /\ c.handler = "health"

----------------------------------------------------------------------------
(* C4: the middleware a route is registered with is exactly what the With   *)
(* calls on its own node added, in call order; With calls on other nodes    *)
(* add nothing to it, and a node without With calls is registered bare.     *)
RECURSIVE Accumulated(_, _, _)
Accumulated(calls, n, i) ==
    IF i > Len(calls) THEN <<>>
    ELSE (IF calls[i].node = n THEN calls[i].middlewares ELSE <<>>)
             \o Accumulated(calls, n, i + 1)

C4_OwnMiddlewareInCallOrder ==
    pass.done =>
        \A c \in Range(pass.calls) :
            c.middlewares = Accumulated(pass.withCalls, c.node, 1)

\* A route registered after two With calls on its node
C4_Witness ==
    /\ pass.done
    /\ \E c \in Range(pass.calls) :
          /\ Len(c.middlewares) >= 2
          /\ Cardinality({i \in DOMAIN pass.withCalls : pass.withCalls[i].node = c.node}) = 2

----------------------------------------------------------------------------
(* C5: the interceptor calls next, once and without writing a response,     *)
(* exactly when the header is "Bearer " followed by the configured key;     *)
(* otherwise next is not called and the response is a 401 whose error       *)
(* names the case: no header, no "Bearer " prefix, or another key.          *)
StartsWithBearer(h) ==
    /\ Len(h) >= 7
    /\ h[1] = "B" /\ h[2] = "e" /\ h[3] = "a" /\ h[4] = "r"
    /\ h[5] = "e" /\ h[6] = "r" /\ h[7] = " "

C5_AuthOutcome ==
    Handled =>
        LET h == request.header
            k == request.key
            matches == h = <<"B", "e", "a", "r", "e", "r", " ">> \o k
            refusal(msg) == /\ response.next = 0 /\ response.status = 401
                            /\ response.success = FALSE /\ response.error = msg
        IN  /\ matches <=> (response.next = 1 /\ response.status = 0)
            /\ ~matches => response.next = 0
            /\ h = <<>> => refusal("Missing API Key")
            /\ (h # <<>> /\ ~StartsWithBearer(h)) => refusal("Invalid Authorization format.")
            /\ (StartsWithBearer(h) /\ ~matches) => refusal("Invalid API Key")

\* A request with the right two-character key went through
C5_Witness ==
    /\ Handled
    /\ response.next = 1
    /\ Len(request.key) >= 2

----------------------------------------------------------------------------
----------------------------------------------------------------------------
(* C7: once the route tree is cleared, every SetupRoutes, WriteRoutes and   *)
(* builder call fails, and the dispatcher keeps the registrations it had.   *)
C7_AllCallsFailAfterDiscard ==
    [][(routeTree = NilTree /\ last'.op \in {"SetupRoutes", "WriteRoutes", "Route", "Get",
                                         "Post", "Put", "Delete", "With"})
           => (last'.result = "panic" /\ chi' = chi /\ nodes' = nodes)]_vars

====
